---- MODULE Spec2Model ----
(***************************************************************************)
(* Request translation pipeline of the S3 gateway: the auth middleware     *)
(* (api/user-auth.go) and the CREATE-BUCKET and COPY coordinators          *)
(* (api/handler/put.go), with the header interpreters they use.            *)
(*                                                                         *)
(* Strings the code inspects character by character (the x-amz-acl value,  *)
(* the copy source) are sequences of one-character strings; strings that   *)
(* are only compared are TLA+ strings.                                     *)
(***************************************************************************)
EXTENDS Integers, Sequences, FiniteSets, TLC

VARIABLES
    op,        \* route of the request: which handler the router dispatches to
    pc,        \* position of the request in middleware / handler
    req,       \* the parts of the request read so far: header name -> value
    ctxBox,    \* value stored in the request context under api.BoxData
    loc,       \* local variables of the running handler
    calls,     \* calls made to the object layer and the notifier, in order
    backend,   \* effects committed to the backend by successful calls
    status,    \* HTTP status written to the client (0: none written yet)
    body,      \* documents written to the response body, in order
    hdrs,      \* the ResponseWriter's header map: <<name, value>> pairs
    sentHdrs,  \* headers actually sent (frozen by the first WriteHeader)
    failed,    \* step whose error the handler reported ("" if none)
    nextCalls  \* how many times the middleware invoked the next handler

vars == <<op, pc, req, ctxBox, loc, calls, backend, status, body, hdrs,
          sentHdrs, failed, nextCalls>>

-----------------------------------------------------------------------------
(* Bounds *)

MaxACLLen == 3
MaxPolicies == 2
MaxReasonLen == 3

-----------------------------------------------------------------------------
(* Strings as sequences of characters *)

Str(S, n) == UNION {[1..k -> S] : k \in 0..n}

HexLowerChars == {"0","1","2","3","4","5","6","7","8","9","a","b","c","d","e","f"}
HexUpperChars == {"A","B","C","D","E","F"}
HexChars == HexLowerChars \cup HexUpperChars

\* unicode.ToLower on the characters of the model's alphabet
ToLowerChar(c) ==
    CASE c = "A" -> "a" [] c = "B" -> "b" [] c = "C" -> "c" [] c = "D" -> "d"
      [] c = "E" -> "e" [] c = "F" -> "f" [] c = "X" -> "x" [] OTHER -> c

ToUpperChar(c) ==
    CASE c = "a" -> "A" [] c = "b" -> "B" [] c = "c" -> "C" [] c = "d" -> "D"
      [] c = "e" -> "E" [] c = "f" -> "F" [] c = "x" -> "X" [] OTHER -> c

\* strings.ToLower
ToLower(s) == [i \in 1..Len(s) |-> ToLowerChar(s[i])]

ToUpper(s) == [i \in 1..Len(s) |-> ToUpperChar(s[i])]

\* strings.Trim(s, cutset): drops EVERY leading and trailing character that
\* is in cutset, not a prefix string.
RECURSIVE TrimLeft(_, _)
TrimLeft(s, cutset) ==
    IF s # <<>> /\ Head(s) \in cutset THEN TrimLeft(Tail(s), cutset) ELSE s

RECURSIVE TrimRight(_, _)
TrimRight(s, cutset) ==
    IF s # <<>> /\ s[Len(s)] \in cutset
    THEN TrimRight(SubSeq(s, 1, Len(s) - 1), cutset) ELSE s

Trim(s, cutset) == TrimRight(TrimLeft(s, cutset), cutset)

HexDigitVal(c) ==
    CASE c = "0" -> 0 [] c = "1" -> 1 [] c = "2" -> 2 [] c = "3" -> 3
      [] c = "4" -> 4 [] c = "5" -> 5 [] c = "6" -> 6 [] c = "7" -> 7
      [] c = "8" -> 8 [] c = "9" -> 9
      [] c \in {"a","A"} -> 10 [] c \in {"b","B"} -> 11 [] c \in {"c","C"} -> 12
      [] c \in {"d","D"} -> 13 [] c \in {"e","E"} -> 14 [] c \in {"f","F"} -> 15

RECURSIVE HexValue(_)
HexValue(s) ==
    IF s = <<>> THEN 0
    ELSE 16 * HexValue(SubSeq(s, 1, Len(s) - 1)) + HexDigitVal(s[Len(s)])

\* A uint32 is kept as its two 16-bit halves [hi, lo] (value = hi * 2^16 + lo).
Uint32Of(digits) ==
    LET n == Len(digits)
    IN  [hi |-> HexValue(SubSeq(digits, 1, n - 4)),
         lo |-> HexValue(SubSeq(digits, IF n > 4 THEN n - 3 ELSE 1, n))]

\* strconv.ParseUint(s, 16, 32): the empty string and any non-hex character
\* are syntax errors; a value of 2^32 or more (more than 8 significant
\* digits) is a range error.  Upper- and lower-case digits are both accepted.
ParseUint16_32(s) ==
    LET sig == TrimLeft(s, {"0"})
    IN  IF s = <<>> \/ \E i \in 1..Len(s) : s[i] \notin HexChars
            THEN [ok |-> FALSE, value |-> [hi |-> 0, lo |-> 0]]
        ELSE IF Len(sig) > 8
            THEN [ok |-> FALSE, value |-> [hi |-> 0, lo |-> 0]]
        ELSE [ok |-> TRUE, value |-> Uint32Of(sig)]

-----------------------------------------------------------------------------
(* Canned ACL parser: put.go, parseBasicACL *)

basicACLPrivate == <<"p","r","i","v","a","t","e">>
basicACLReadOnly == <<"p","u","b","l","i","c","-","r","e","a","d">>
basicACLPublic ==
    <<"p","u","b","l","i","c","-","r","e","a","d","-","w","r","i","t","e">>

\* publicBasicRule = 0x0FFFFFFF, as 16-bit halves
publicBasicRule == [hi |-> 4095, lo |-> 65535]

NoValue == [hi |-> 0, lo |-> 0]

\* The result (uint32, error).  The three library constants acl.*BasicRule
\* are kept by name in rule; a parsed mask has rule "" and its value.
\* text is the string the error message would quote.
ACLResult(ok, rule, value, text) ==
    [ok |-> ok, rule |-> rule, value |-> value, text |-> text]

\* Variant: removes the first two characters instead of trimming.
parseBasicACL_SliceTwo(basicACL) ==
    CASE basicACL = basicACLPublic ->
            ACLResult(TRUE, "acl.PublicBasicRule", NoValue, <<>>)
      [] basicACL = basicACLPrivate ->
            ACLResult(TRUE, "acl.PrivateBasicRule", NoValue, <<>>)
      [] basicACL = basicACLReadOnly ->
            ACLResult(TRUE, "acl.ReadOnlyBasicRule", NoValue, <<>>)
      [] OTHER ->
            LET t == SubSeq(ToLower(basicACL), 3, Len(basicACL))
                r == ParseUint16_32(t)
            IN  IF r.ok THEN ACLResult(TRUE, "", r.value, <<>>)
                ELSE ACLResult(FALSE, "", NoValue, t)

parseBasicACL(basicACL) ==
    CASE basicACL = basicACLPublic ->
            ACLResult(TRUE, "acl.PublicBasicRule", NoValue, <<>>)
      [] basicACL = basicACLPrivate ->
            ACLResult(TRUE, "acl.PrivateBasicRule", NoValue, <<>>)
      [] basicACL = basicACLReadOnly ->
            ACLResult(TRUE, "acl.ReadOnlyBasicRule", NoValue, <<>>)
      [] OTHER ->
            LET t == Trim(ToLower(basicACL), {"0", "x"})
                r == ParseUint16_32(t)
            IN  IF r.ok THEN ACLResult(TRUE, "", r.value, <<>>)
                ELSE ACLResult(FALSE, "", NoValue, t)

\* x-amz-acl values the model feeds to the parser
ACLChars == {"0", "1", "a", "F", "x", "X", "g"}

ACLLongSamples ==
    { <<"f","f","f","f","f","f","f","f">>,
      <<"0","x","F","F","F","F","F","F","F","F">>,
      <<"1","2","3","4","5","6","7","8","9">>,
      <<"0","x","0","0","0","0","0","0","0","0","1">>,
      <<"0","x","1","c","8","c","8","c","c","c">>,
      <<"1","0","0","0","0","0","0","0">>,
      <<"p","u","b","l","i","c">> }

ACLInputs ==
    Str(ACLChars, MaxACLLen) \cup ACLLongSamples
        \cup {basicACLPrivate, basicACLReadOnly, basicACLPublic}

\* the few values the whole-request specification uses
ACLSamples ==
    { basicACLPrivate, <<"0","x","1","0">>, <<"a","F">>, <<"g">>, <<"0">> }

-----------------------------------------------------------------------------
(* Errors and the responder *)

APIError(code) == [api |-> TRUE, code |-> code, msg |-> ""]
Opaque(msg) == [api |-> FALSE, code |-> "", msg |-> msg]
NoError == [api |-> FALSE, code |-> "", msg |-> ""]

\* The static table of the error mapper: HTTP status of each S3 error code.
HTTPStatusOf(code) ==
    CASE code = "AccessDenied" -> 403
      [] code = "PreconditionFailed" -> 412
      [] code = "NoSuchBucket" -> 404
      [] code = "NoSuchKey" -> 404
      [] code = "InternalError" -> 500
      [] OTHER -> 400   \* InvalidRequest, Invalid*Directive, BadRequest

\* An S3 error keeps its code; an opaque error is wrapped in InternalError
\* with its own message.
ErrorCodeOf(err) == IF err.api THEN err.code ELSE "InternalError"
ErrorStatus(err) == HTTPStatusOf(ErrorCodeOf(err))
ErrorDoc(err) == [doc |-> "Error", code |-> ErrorCodeOf(err), msg |-> err.msg]

\* http.ResponseWriter: the first WriteHeader fixes the status and sends the
\* header map as it is then; later WriteHeader calls are ignored; every Write
\* appends to the body.
WriteResponse(code, doc) ==
    /\ status' = IF status = 0 THEN code ELSE status
    /\ sentHdrs' = IF status = 0 THEN hdrs ELSE sentHdrs
    /\ body' = Append(body, doc)

\* api.WriteErrorResponse
WriteErrorResponse(err) == WriteResponse(ErrorStatus(err), ErrorDoc(err))

\* h.writeError / h.logAndSendError: log, write the error, and the caller
\* returns.
Fail(step, err) ==
    /\ WriteErrorResponse(err)
    /\ failed' = step
    /\ pc' = "done"

-----------------------------------------------------------------------------
(* Request, context and handler frame *)

Ops == {"CREATE", "COPY", "PUT"}

\* The request is read lazily: req maps the name of every part of the
\* request the code has looked at so far to the value it found there.
EmptyReq == [h \in {} |-> ""]
Has(h) == h \in DOMAIN req
Read(h, v) == req' = (h :> v) @@ req

\* accessbox.Box behind the pointer the credential center returns.
\* gate: "nil" | "set" (from the box) | "synth" (made by getBoxData).
NilBox == [nil |-> TRUE, gate |-> "nil", policies |-> <<>>, token |-> FALSE]

PolicyEntries ==
    { [LocationConstraint |-> "",   Policy |-> "P0"],
      [LocationConstraint |-> "eu", Policy |-> "P1"],
      [LocationConstraint |-> "eu", Policy |-> "P2"],
      [LocationConstraint |-> "us", Policy |-> "P3"] }

PolicyLists == Str(PolicyEntries, MaxPolicies)

\* Boxes the credential center can hand out.  CREATE reads Policies and
\* Gate, COPY reads only the EACL session token of the gate.
BoxesFor(o) ==
    IF o = "CREATE"
    THEN { [nil |-> FALSE, gate |-> g, policies |-> ps, token |-> FALSE] :
              g \in {"nil", "set"}, ps \in PolicyLists }
    ELSE { [nil |-> FALSE, gate |-> "set", policies |-> <<>>, token |-> t] :
              t \in BOOLEAN }

\* What center.Authenticate(r) can return: (box, err).
AuthOutcomes(o) ==
    { [err |-> "ErrNoAuthorizationHeader", box |-> NilBox],
      [err |-> "other", box |-> NilBox] }
    \cup { [err |-> "", box |-> b] : b \in BoxesFor(o) \cup {NilBox} }

NoCtxBox == [set |-> FALSE, box |-> NilBox]

\* A Go map[string]string: nil or a set of <<key, value>> pairs.
NilMap == [nil |-> TRUE, m |-> {}]
MapOf(pairs) == [nil |-> FALSE, m |-> pairs]
MapGet(mp, k) == IF \E e \in mp.m : e[1] = k
                 THEN (CHOOSE e \in mp.m : e[1] = k)[2] ELSE ""
MapSet(mp, k, v) == [mp EXCEPT !.m = {e \in mp.m : e[1] # k} \cup {<<k, v>>}]

NoObjInfo == [ContentType |-> "", Headers |-> NilMap, HashSum |-> "",
              Version |-> "", Encrypted |-> FALSE, Modified |-> 0]

NoConditional == [IfMatch |-> "", IfNoneMatch |-> "",
                  IfModifiedSince |-> 0, IfUnmodifiedSince |-> 0]

InitLoc ==
    [ \* CreateBucketHandler
      acl     |-> ACLResult(TRUE, "", NoValue, <<>>),  \* (p.ACL, err)
      lc      |-> "",          \* createParams.LocationConstraint
      policy  |-> "nil",       \* p.Policy
      boxData |-> FALSE,       \* boxData != nil
      \* CopyObjectHandler
      containsACL |-> FALSE,
      versionID   |-> "",
      srcBucket   |-> <<>>,
      srcObject   |-> <<>>,
      sessionTokenEACL |-> FALSE,      \* sessionTokenEACL != nil
      headed      |-> NoObjInfo,       \* the source ObjectInfo as the layer returned it
      srcInfo     |-> NoObjInfo,       \* that ObjectInfo as it is now
      objInfo     |-> NoObjInfo,       \* the variable objInfo
      conditional |-> NoConditional,   \* args.Conditional
      metaDir     |-> "",              \* args.MetadataDirective
      tagDir      |-> "",              \* args.TaggingDirective
      metadata    |-> NilMap,
      tagSet      |-> NilMap,
      encEnabled  |-> FALSE,           \* encryptionParams.Enabled()
      copied      |-> FALSE,           \* objInfo now is CopyObject's result
      \* PutObjectHandler
      err         |-> NoError ]        \* the error PutObject returned

InitBackend == [bucket |-> FALSE, object |-> FALSE, acl |-> FALSE,
                tags |-> FALSE]

Entry(o) ==
    CASE o = "CREATE" -> "create_acl"
      [] o = "COPY" -> "copy_source"
      [] OTHER -> "put_object"

Init ==
    /\ op \in Ops
    /\ pc = "auth"
    /\ req = EmptyReq
    /\ ctxBox = NoCtxBox
    /\ loc = InitLoc
    /\ calls = <<>>
    /\ backend = InitBackend
    /\ status = 0
    /\ body = <<>>
    /\ hdrs = {}
    /\ sentHdrs = {}
    /\ failed = ""
    /\ nextCalls = 0

-----------------------------------------------------------------------------
(* Auth middleware: user-auth.go, AttachUserAuth *)

\* h.ServeHTTP(w, r.WithContext(ctx))
ServeNext(ctx) ==
    /\ ctxBox' = ctx
    /\ nextCalls' = nextCalls + 1
    /\ pc' = Entry(op)
    /\ UNCHANGED <<status, body, sentHdrs, failed>>

\* Variant: every authentication error is treated as a missing header.
AttachUserAuth_NoReturn ==
    /\ pc = "auth"
    /\ \E a \in AuthOutcomes(op) :
        /\ Read("auth", a)
        /\ IF a.err = "" THEN ServeNext([set |-> TRUE, box |-> a.box])
           ELSE ServeNext(ctxBox)
    /\ UNCHANGED <<op, loc, calls, backend, hdrs>>

AttachUserAuth ==
    /\ pc = "auth"
    /\ \E a \in AuthOutcomes(op) :
        /\ Read("auth", a)
        /\ IF a.err # ""
           THEN IF a.err = "ErrNoAuthorizationHeader"
                THEN ServeNext(ctxBox)
                ELSE /\ Fail("Authenticate", APIError("AccessDenied"))
                     /\ UNCHANGED <<ctxBox, nextCalls>>
           ELSE ServeNext([set |-> TRUE, box |-> a.box])
    /\ UNCHANGED <<op, loc, calls, backend, hdrs>>

-----------------------------------------------------------------------------
(* CREATE-BUCKET coordinator: put.go, CreateBucketHandler *)

defaultPolicy == "REP 3"

\* policy.Parse of the placement-policy library; the parsed policy is named
\* by its source text.
PolicyParse(text) ==
    IF text = defaultPolicy THEN [ok |-> TRUE, policy |-> text]
    ELSE [ok |-> FALSE, policy |-> "nil"]

\* The x-amz-acl header as the handler finds it: r.Header["X-Amz-Acl"]
ACLHeaders(values) ==
    {[present |-> FALSE, val |-> <<>>]}
        \cup {[present |-> TRUE, val |-> v] : v \in values}

\* lines 93-103: p.ACL from the header, or publicBasicRule without one
CreateParseACLOf(values) ==
    /\ pc = "create_acl"
    /\ \E h \in ACLHeaders(values) :
        LET r == IF h.present THEN parseBasicACL(h.val)
                 ELSE ACLResult(TRUE, "", publicBasicRule, <<>>)
        IN  /\ Read("X-Amz-Acl", h)
            /\ loc' = [loc EXCEPT !.acl = r]
            /\ IF r.ok
               THEN /\ pc' = "create_body"
                    /\ UNCHANGED <<status, body, sentHdrs, failed>>
               ELSE Fail("parseBasicACL", Opaque("can't parse basic ACL"))
    /\ UNCHANGED <<op, ctxBox, calls, backend, hdrs, nextCalls>>

CreateParseACL == CreateParseACLOf(ACLSamples)

\* Request bodies: Content-Length and what the body stream holds.  A body
\* announced with Content-Length 0 is empty; a chunked request
\* (Content-Length -1) may hold anything, nothing included.
Bodies ==
    {[contentLength |-> 0, kind |-> "empty", lc |-> ""]}
    \cup {[contentLength |-> n, kind |-> "xml", lc |-> c] :
              n \in {-1, 5}, c \in {"", "eu", "us", "zz"}}
    \cup {[contentLength |-> n, kind |-> "malformed", lc |-> ""] : n \in {-1, 5}}
    \cup {[contentLength |-> -1, kind |-> "empty", lc |-> ""]}

\* xml.NewDecoder(r.Body).Decode(params): io.EOF on an empty stream, a
\* syntax error on malformed XML.
XMLDecode(b) ==
    CASE b.kind = "xml" -> [ok |-> TRUE, lc |-> b.lc, err |-> NoError]
      [] b.kind = "empty" -> [ok |-> FALSE, lc |-> "", err |-> Opaque("EOF")]
      [] OTHER -> [ok |-> FALSE, lc |-> "", err |-> Opaque("XML syntax error")]

parseLocationConstraint(b) ==
    IF b.contentLength = 0 THEN [ok |-> TRUE, lc |-> "", err |-> NoError]
    ELSE XMLDecode(b)

\* lines 105-109
CreateParseBody ==
    /\ pc = "create_body"
    /\ \E b \in Bodies :
        LET r == parseLocationConstraint(b)
        IN  /\ Read("body", b)
            /\ IF r.ok
               THEN /\ loc' = [loc EXCEPT !.lc = r.lc]
                    /\ pc' = "create_box"
                    /\ UNCHANGED <<status, body, sentHdrs, failed>>
               ELSE /\ Fail("parseLocationConstraint", r.err)
                    /\ UNCHANGED loc
    /\ UNCHANGED <<op, ctxBox, calls, backend, hdrs, nextCalls>>

\* Variant: a request without a box gets an empty one.
getBoxData_EmptyBox(ctx) ==
    IF ~ctx.set \/ ctx.box.nil
    THEN [ok |-> TRUE,
          ctx |-> [set |-> TRUE,
                   box |-> [nil |-> FALSE, gate |-> "synth",
                            policies |-> <<>>, token |-> FALSE]]]
    ELSE [ok |-> TRUE,
          ctx |-> IF ctx.box.gate = "nil"
                  THEN [ctx EXCEPT !.box.gate = "synth"] ELSE ctx]

\* getBoxData: the box of the context, its nil Gate replaced
getBoxData(ctx) ==
    IF ~ctx.set \/ ctx.box.nil
    THEN [ok |-> FALSE, ctx |-> ctx]
    ELSE [ok |-> TRUE,
          ctx |-> IF ctx.box.gate = "nil"
                  THEN [ctx EXCEPT !.box.gate = "synth"] ELSE ctx]

\* lines 111-115
CreateGetBox ==
    /\ pc = "create_box"
    /\ LET r == getBoxData(ctxBox)
       IN  IF r.ok
           THEN /\ ctxBox' = r.ctx
                /\ loc' = [loc EXCEPT !.boxData = TRUE]
                /\ pc' = "create_policy"
                /\ UNCHANGED <<status, body, sentHdrs, failed>>
           ELSE /\ Fail("getBoxData",
                        Opaque("couldn't get box data from context"))
                /\ UNCHANGED <<ctxBox, loc>>
    /\ UNCHANGED <<op, req, calls, backend, hdrs, nextCalls>>

\* Variant: the loop without its break keeps the last match.
RECURSIVE LastMatch(_, _)
LastMatch(policies, lc) ==
    IF policies = <<>> THEN "nil"
    ELSE IF policies[Len(policies)].LocationConstraint = lc
         THEN policies[Len(policies)].Policy
    ELSE LastMatch(SubSeq(policies, 1, Len(policies) - 1), lc)

\* lines 117-124: the Policy of the first entry with that LocationConstraint
RECURSIVE FirstMatch(_, _)
FirstMatch(policies, lc) ==
    IF policies = <<>> THEN "nil"
    ELSE IF Head(policies).LocationConstraint = lc THEN Head(policies).Policy
    ELSE FirstMatch(Tail(policies), lc)

selectPolicy(policies, lc) ==
    IF lc # "" THEN FirstMatch(policies, lc) ELSE "nil"

\* lines 117-131
CreatePolicy ==
    /\ pc = "create_policy"
    /\ LET chosen == selectPolicy(ctxBox.box.policies, loc.lc)
           parsed == PolicyParse(defaultPolicy)
       IN  IF chosen # "nil"
           THEN /\ loc' = [loc EXCEPT !.policy = chosen]
                /\ pc' = "create_call"
                /\ UNCHANGED <<status, body, sentHdrs, failed>>
           ELSE IF parsed.ok
           THEN /\ loc' = [loc EXCEPT !.policy = parsed.policy]
                /\ pc' = "create_call"
                /\ UNCHANGED <<status, body, sentHdrs, failed>>
           ELSE /\ Fail("policy.Parse", Opaque("can't parse policy"))
                /\ UNCHANGED loc
    /\ UNCHANGED <<op, req, ctxBox, calls, backend, hdrs, nextCalls>>

\* Errors the object layer can return
LayerErrors == {APIError("AccessDenied"), Opaque("backend failure")}

Call(fn, ok, arg) == [fn |-> fn, ok |-> ok, arg |-> arg]

\* api.WriteSuccessResponseHeadersOnly: status 200, no body
WriteSuccessResponseHeadersOnly ==
    /\ status' = IF status = 0 THEN 200 ELSE status
    /\ sentHdrs' = IF status = 0 THEN hdrs ELSE sentHdrs
    /\ UNCHANGED body

\* lines 133-143
CreateBucketCall ==
    /\ pc = "create_call"
    /\ LET arg == [acl |-> loc.acl, policy |-> loc.policy, box |-> ctxBox.box]
       IN  \/ /\ calls' = Append(calls, Call("CreateBucket", TRUE, arg))
              /\ backend' = [backend EXCEPT !.bucket = TRUE]
              /\ WriteSuccessResponseHeadersOnly
              /\ pc' = "done"
              /\ UNCHANGED failed
           \/ \E e \in LayerErrors :
              /\ calls' = Append(calls, Call("CreateBucket", FALSE, arg))
              /\ Fail("CreateBucket", e)
              /\ UNCHANGED backend
    /\ UNCHANGED <<op, req, ctxBox, loc, hdrs, nextCalls>>

-----------------------------------------------------------------------------
(* COPY coordinator: put.go, CopyObjectHandler *)

replaceDirective == "REPLACE"
copyDirective == "COPY"

\* [a-z0-9.\-]
BucketChars ==
    {"a","b","c","d","e","f","g","h","i","j","k","l","m","n","o","p","q","r",
     "s","t","u","v","w","x","y","z","0","1","2","3","4","5","6","7","8","9",
     ".","-"}

RECURSIVE IndexOf(_, _, _)
IndexOf(s, c, i) ==
    IF i > Len(s) THEN 0 ELSE IF s[i] = c THEN i ELSE IndexOf(s, c, i + 1)

\* copySourceMatcher: ^/?(?P<bucket_name>[a-z0-9.\-]{3,63})/(?P<object_name>.+)$
\* The bucket class has no "/", so the bucket is what stands before the
\* first "/" that follows the optional leading one.
path2BucketObject(path) ==
    LET rest == IF path # <<>> /\ Head(path) = "/" THEN Tail(path) ELSE path
        cut == IndexOf(rest, "/", 1)
        bucket == SubSeq(rest, 1, cut - 1)
        object == SubSeq(rest, cut + 1, Len(rest))
    IN  IF /\ cut > 0
           /\ Len(bucket) >= 3 /\ Len(bucket) <= 63
           /\ \A i \in 1..Len(bucket) : bucket[i] \in BucketChars
           /\ object # <<>>
        THEN [ok |-> TRUE, bucket |-> bucket, object |-> object]
        ELSE [ok |-> FALSE, bucket |-> <<>>, object |-> <<>>]

\* x-amz-copy-source values, already split by url.Parse into the path and
\* the versionId of the query (the samples are well-formed URLs).
CopySources ==
    { [path |-> <<"/","b","k","t","/","o">>, versionId |-> ""],
      [path |-> <<"b","k","t","/","o">>,     versionId |-> "v1"],
      [path |-> <<"b","k","/","o">>,         versionId |-> ""],
      [path |-> <<"/","b","k","t","/">>,     versionId |-> ""],
      [path |-> <<"/","B","k","t","/","o">>, versionId |-> ""] }

\* lines 246-264: containsACLHeaders, the copy source
CopyParseSource ==
    /\ pc = "copy_source"
    /\ \E hasACL \in BOOLEAN, src \in CopySources :
        LET r == path2BucketObject(src.path)
        IN  /\ req' = ("acl" :> hasACL) @@ ("X-Amz-Copy-Source" :> src) @@ req
            /\ IF r.ok
               THEN /\ loc' = [loc EXCEPT !.containsACL = hasACL,
                                          !.versionID = src.versionId,
                                          !.srcBucket = r.bucket,
                                          !.srcObject = r.object]
                    /\ pc' = "copy_srcbkt"
                    /\ UNCHANGED <<status, body, sentHdrs, failed>>
               ELSE /\ loc' = [loc EXCEPT !.containsACL = hasACL,
                                          !.versionID = src.versionId]
                    /\ Fail("path2BucketObject", APIError("InvalidRequest"))
    /\ UNCHANGED <<op, ctxBox, calls, backend, hdrs, nextCalls>>

\* h.getBucketAndCheckOwner: resolves the bucket through the object layer
\* and checks the expected-owner header.
BucketErrors == {APIError("NoSuchBucket"), APIError("AccessDenied")}

ResolveBucket(which, from, to) ==
    /\ pc = from
    /\ \/ /\ calls' = Append(calls, Call("GetBucketInfo", TRUE, which))
          /\ pc' = to
          /\ UNCHANGED <<status, body, sentHdrs, failed>>
       \/ \E e \in BucketErrors :
          /\ calls' = Append(calls, Call("GetBucketInfo", FALSE, which))
          /\ Fail(which, e)
    /\ UNCHANGED <<op, req, ctxBox, loc, backend, hdrs, nextCalls>>

\* lines 271-274
CopyResolveSrcBucket == ResolveBucket("srcBucket", "copy_srcbkt", "copy_dstbkt")

\* lines 276-280
CopyResolveDstBucket == ResolveBucket("dstBucket", "copy_dstbkt", "copy_token")

\* getSessionTokenSetEACL: the EACL session token of the box in the context
getSessionTokenSetEACL(ctx) ==
    IF ~ctx.set \/ ctx.box.nil
        THEN [ok |-> FALSE, err |-> Opaque("couldn't get box data from context")]
    ELSE IF ~ctx.box.token
        THEN [ok |-> FALSE, err |-> APIError("AccessDenied")]
    ELSE [ok |-> TRUE, err |-> NoError]

\* Variant: the token is not required before the source is headed.
CopyGetSessionToken_Optional ==
    /\ pc = "copy_token"
    /\ loc' = [loc EXCEPT !.sessionTokenEACL =
                   loc.containsACL /\ getSessionTokenSetEACL(ctxBox).ok]
    /\ pc' = "copy_head"
    /\ UNCHANGED <<op, req, ctxBox, calls, backend, status, body, hdrs,
                   sentHdrs, failed, nextCalls>>

\* lines 282-287
CopyGetSessionToken ==
    /\ pc = "copy_token"
    /\ IF loc.containsACL
       THEN LET r == getSessionTokenSetEACL(ctxBox)
            IN  IF r.ok
                THEN /\ loc' = [loc EXCEPT !.sessionTokenEACL = TRUE]
                     /\ pc' = "copy_head"
                     /\ UNCHANGED <<status, body, sentHdrs, failed>>
                ELSE /\ Fail("getSessionTokenSetEACL", r.err)
                     /\ UNCHANGED loc
       ELSE /\ pc' = "copy_head"
            /\ UNCHANGED <<loc, status, body, sentHdrs, failed>>
    /\ UNCHANGED <<op, req, ctxBox, calls, backend, hdrs, nextCalls>>

\* Source objects the layer can return: last modified at time 2, ETag "abc".
SrcObjInfos ==
    { [ContentType |-> ct, Headers |-> MapOf({<<"K", "V">>}), HashSum |-> "abc",
       Version |-> "sv", Encrypted |-> e, Modified |-> 2] :
         ct \in {"", "image/png"}, e \in BOOLEAN }

ObjectErrors == {APIError("NoSuchKey"), Opaque("backend failure")}

\* lines 289-293
CopyGetObjectInfo ==
    /\ pc = "copy_head"
    /\ LET arg == [bucket |-> loc.srcBucket, object |-> loc.srcObject,
                   versionID |-> loc.versionID]
       IN  \/ \E oi \in SrcObjInfos :
              /\ calls' = Append(calls, Call("GetObjectInfo", TRUE, arg))
              /\ loc' = [loc EXCEPT !.headed = oi, !.srcInfo = oi,
                                    !.objInfo = oi]
              /\ pc' = "copy_args"
              /\ UNCHANGED <<status, body, sentHdrs, failed>>
           \/ \E e \in ObjectErrors :
              /\ calls' = Append(calls, Call("GetObjectInfo", FALSE, arg))
              /\ Fail("GetObjectInfo", e)
              /\ UNCHANGED loc
    /\ UNCHANGED <<op, req, ctxBox, backend, hdrs, nextCalls>>


\* The copy-conditional headers.  A date header is 0 when absent, -1 when
\* it is no HTTP date, else the time it names.
ConditionalHeaders ==
    { [IfMatch |-> "",    IfNoneMatch |-> "",    IfModifiedSince |-> 0,  IfUnmodifiedSince |-> 0],
      [IfMatch |-> "",    IfNoneMatch |-> "abc", IfModifiedSince |-> 0,  IfUnmodifiedSince |-> 0],
      [IfMatch |-> "zzz", IfNoneMatch |-> "",    IfModifiedSince |-> 0,  IfUnmodifiedSince |-> 0],
      [IfMatch |-> "abc", IfNoneMatch |-> "",    IfModifiedSince |-> 0,  IfUnmodifiedSince |-> 0],
      [IfMatch |-> "",    IfNoneMatch |-> "",    IfModifiedSince |-> -1, IfUnmodifiedSince |-> 0],
      [IfMatch |-> "",    IfNoneMatch |-> "",    IfModifiedSince |-> 0,  IfUnmodifiedSince |-> -1],
      [IfMatch |-> "",    IfNoneMatch |-> "",    IfModifiedSince |-> -1, IfUnmodifiedSince |-> -1],
      [IfMatch |-> "",    IfNoneMatch |-> "",    IfModifiedSince |-> 3,  IfUnmodifiedSince |-> 0],
      [IfMatch |-> "",    IfNoneMatch |-> "",    IfModifiedSince |-> 0,  IfUnmodifiedSince |-> 1],
      [IfMatch |-> "",    IfNoneMatch |-> "",    IfModifiedSince |-> 1,  IfUnmodifiedSince |-> 3] }

Directives == {"", "COPY", "REPLACE", "MERGE", "replace"}

\* parseHTTPTime: no time for an absent header, an error for a malformed one
parseHTTPTime(d) == [ok |-> d >= 0, t |-> IF d >= 0 THEN d ELSE 0]

\* Variant: the directive is compared without regard to case.
isValidDirective_AnyCase(directive) ==
    directive \in {"", "REPLACE", "COPY", "replace", "copy"}

isValidDirective(directive) ==
    directive = "" \/ directive = replaceDirective \/ directive = copyDirective

ArgsResult(ok, err, c, md, td) ==
    [ok |-> ok, err |-> err, conditional |-> c, metaDir |-> md, tagDir |-> td]

\* Variant: the tagging directive is validated before the metadata directive.
parseCopyObjectArgs_TaggingFirst(c, md, td) ==
    IF ~parseHTTPTime(c.IfModifiedSince).ok
        THEN ArgsResult(FALSE, APIError("BadRequest"), NoConditional, "", "")
    ELSE IF ~parseHTTPTime(c.IfUnmodifiedSince).ok
        THEN ArgsResult(FALSE, APIError("BadRequest"), NoConditional, "", "")
    ELSE IF ~isValidDirective(td)
        THEN ArgsResult(FALSE, APIError("InvalidTaggingDirective"),
                        NoConditional, "", "")
    ELSE IF ~isValidDirective(md)
        THEN ArgsResult(FALSE, APIError("InvalidMetadataDirective"),
                        NoConditional, "", "")
    ELSE ArgsResult(TRUE, NoError, c, md, td)

parseCopyObjectArgs(c, md, td) ==
    IF ~parseHTTPTime(c.IfModifiedSince).ok
        THEN ArgsResult(FALSE, APIError("BadRequest"), NoConditional, "", "")
    ELSE IF ~parseHTTPTime(c.IfUnmodifiedSince).ok
        THEN ArgsResult(FALSE, APIError("BadRequest"), NoConditional, "", "")
    ELSE IF ~isValidDirective(md)
        THEN ArgsResult(FALSE, APIError("InvalidMetadataDirective"),
                        NoConditional, "", "")
    ELSE IF ~isValidDirective(td)
        THEN ArgsResult(FALSE, APIError("InvalidTaggingDirective"),
                        NoConditional, "", "")
    ELSE ArgsResult(TRUE, NoError, c, md, td)

\* Request headers the metadata steps look at: <<prefix, rest of name, value>>
MetadataPrefix == "X-Amz-Meta-"

HeaderSamples ==
    { meta \cup ct :
        meta \in { {}, {<<MetadataPrefix, "X", "Y">>},
                   {<<MetadataPrefix, "neofs-copies-number", "bad">>} },
        ct \in { {}, {<<"", "Content-Type", "text/plain">>} } }

\* lines 75-84: the headers with the metadata prefix, the prefix removed
parseMetadata(headers) ==
    MapOf({<<h[2], h[3]>> : h \in {x \in headers : x[1] = MetadataPrefix}})

HeaderGet(headers, name) ==
    IF \E h \in headers : h[1] = "" /\ h[2] = name
    THEN (CHOOSE h \in headers : h[1] = "" /\ h[2] = name)[3] ELSE ""

\* lines 295-303
CopyParseArgs ==
    /\ pc = "copy_args"
    /\ \E c \in ConditionalHeaders, md \in Directives, td \in Directives,
          hs \in HeaderSamples :
        LET r == parseCopyObjectArgs(c, md, td)
        IN  /\ (r.ok /\ r.metaDir = replaceDirective) \/ hs = {}
            /\ req' = ("conditional" :> c) @@ ("metaDir" :> md)
                        @@ ("tagDir" :> td)
                        @@ (IF r.ok /\ r.metaDir = replaceDirective
                            THEN ("headers" :> hs) ELSE EmptyReq)
                        @@ req
            /\ IF r.ok
               THEN /\ loc' = [loc EXCEPT
                                 !.conditional = r.conditional,
                                 !.metaDir = r.metaDir,
                                 !.tagDir = r.tagDir,
                                 !.metadata =
                                     IF r.metaDir = replaceDirective
                                     THEN parseMetadata(hs) ELSE NilMap]
                    /\ pc' = "copy_tags"
                    /\ UNCHANGED <<status, body, sentHdrs, failed>>
               ELSE /\ Fail("parseCopyObjectArgs", r.err)
                    /\ UNCHANGED loc
    /\ UNCHANGED <<op, ctxBox, calls, backend, hdrs, nextCalls>>


\* x-amz-tagging values: absent, a query string with one tag, no query string
TaggingHeaders == {"", "k=v", "%zz"}

\* parseTaggingHeader: no tag set without the header
parseTaggingHeader(h) ==
    CASE h = "" -> [ok |-> TRUE, tagSet |-> NilMap]
      [] h = "k=v" -> [ok |-> TRUE, tagSet |-> MapOf({<<"k", "v">>})]
      [] OTHER -> [ok |-> FALSE, tagSet |-> NilMap]

\* Tag sets GetObjectTagging can return for the source
SourceTagSets == {NilMap, MapOf({<<"s", "t">>})}

\* lines 305-323
CopyTagging ==
    /\ pc = "copy_tags"
    /\ IF loc.tagDir = replaceDirective
       THEN \E h \in TaggingHeaders :
              LET r == parseTaggingHeader(h)
              IN  /\ Read("X-Amz-Tagging", h)
                  /\ UNCHANGED calls
                  /\ IF r.ok
                     THEN /\ loc' = [loc EXCEPT !.tagSet = r.tagSet]
                          /\ pc' = "copy_enc"
                          /\ UNCHANGED <<status, body, sentHdrs, failed>>
                     ELSE /\ Fail("parseTaggingHeader", APIError("InvalidRequest"))
                          /\ UNCHANGED loc
       ELSE LET arg == [bucket |-> "srcBucket", object |-> loc.srcObject,
                        versionID |-> loc.objInfo.Version]
            IN  /\ UNCHANGED req
                /\ \/ \E ts \in SourceTagSets :
                      /\ calls' = Append(calls, Call("GetObjectTagging", TRUE, arg))
                      /\ loc' = [loc EXCEPT !.tagSet = ts]
                      /\ pc' = "copy_enc"
                      /\ UNCHANGED <<status, body, sentHdrs, failed>>
                   \/ \E e \in ObjectErrors :
                      /\ calls' = Append(calls, Call("GetObjectTagging", FALSE, arg))
                      /\ Fail("GetObjectTagging", e)
                      /\ UNCHANGED loc
    /\ UNCHANGED <<op, ctxBox, backend, hdrs, nextCalls>>

\* SSE-C request headers: none, a complete set, an incomplete set
SSEHeaders == {"none", "sse-c", "invalid"}

\* h.formEncryptionParams
formEncryptionParams(h) == [ok |-> h # "invalid", enabled |-> h = "sse-c"]

\* encryptionParams.MatchObjectEncryption(layer.FormEncryptionInfo(headers)):
\* the request must use encryption exactly when the object is encrypted
MatchObjectEncryption(enabled, objEncrypted) == enabled = objEncrypted

\* lines 325-334
CopyEncryption ==
    /\ pc = "copy_enc"
    /\ \E h \in SSEHeaders :
        LET r == formEncryptionParams(h)
        IN  /\ Read("sse", h)
            /\ IF ~r.ok
               THEN /\ Fail("formEncryptionParams", APIError("InvalidRequest"))
                    /\ UNCHANGED loc
               ELSE IF ~MatchObjectEncryption(r.enabled, loc.objInfo.Encrypted)
               THEN /\ Fail("MatchObjectEncryption", APIError("BadRequest"))
                    /\ loc' = [loc EXCEPT !.encEnabled = r.enabled]
               ELSE /\ loc' = [loc EXCEPT !.encEnabled = r.enabled]
                    /\ pc' = "copy_precond"
                    /\ UNCHANGED <<status, body, sentHdrs, failed>>
    /\ UNCHANGED <<op, ctxBox, calls, backend, hdrs, nextCalls>>

\* checkPreconditions: fails iff If-Match differs from the ETag, If-None-Match
\* equals it, If-Modified-Since is not before the modification time, or
\* If-Unmodified-Since is before it.
checkPreconditions(info, c) ==
    ~ \/ c.IfMatch # "" /\ c.IfMatch # info.HashSum
      \/ c.IfNoneMatch # "" /\ c.IfNoneMatch = info.HashSum
      \/ c.IfModifiedSince # 0 /\ c.IfModifiedSince >= info.Modified
      \/ c.IfUnmodifiedSince # 0 /\ c.IfUnmodifiedSince < info.Modified

\* Variant: the failed check is logged and the handler goes on.
CopyPreconditions_NoReturn ==
    /\ pc = "copy_precond"
    /\ pc' = "copy_meta"
    /\ UNCHANGED <<status, body, sentHdrs, failed>>
    /\ UNCHANGED <<op, req, ctxBox, loc, calls, backend, hdrs, nextCalls>>

\* lines 336-339
CopyPreconditions ==
    /\ pc = "copy_precond"
    /\ IF checkPreconditions(loc.objInfo, loc.conditional)
       THEN /\ pc' = "copy_meta"
            /\ UNCHANGED <<status, body, sentHdrs, failed>>
       ELSE Fail("checkPreconditions", APIError("PreconditionFailed"))
    /\ UNCHANGED <<op, req, ctxBox, loc, calls, backend, hdrs, nextCalls>>

\* getCopiesNumberOrDefault: the neofs-copies-number entry of the metadata,
\* the handler's default without one
CopiesNumberKey == "neofs-copies-number"
getCopiesNumberOrDefault(metadata) ==
    MapGet(metadata, CopiesNumberKey) # "bad"

\* Variant: with REPLACE and no Content-Type in the request, the content
\* type of the source is filled in.
CopyMetadata_SourceContentType ==
    /\ pc = "copy_meta"
    /\ LET withCT == IF loc.objInfo.ContentType # ""
                     THEN MapSet(loc.objInfo.Headers, "Content-Type",
                                 loc.objInfo.ContentType)
                     ELSE loc.objInfo.Headers
           reqCT == HeaderGet(req["headers"], "Content-Type")
           l1 == IF loc.metadata.nil
                 THEN [loc EXCEPT !.objInfo.Headers = withCT,
                                  !.srcInfo.Headers = withCT,
                                  !.metadata = withCT]
                 ELSE [loc EXCEPT !.metadata =
                          MapSet(loc.metadata, "Content-Type",
                                 IF reqCT # "" THEN reqCT
                                 ELSE loc.objInfo.ContentType)]
       IN  /\ loc' = l1
           /\ IF getCopiesNumberOrDefault(l1.metadata)
              THEN /\ pc' = "copy_settings"
                   /\ UNCHANGED <<status, body, sentHdrs, failed>>
              ELSE Fail("getCopiesNumberOrDefault", APIError("BadRequest"))
    /\ UNCHANGED <<op, req, ctxBox, calls, backend, hdrs, nextCalls>>

\* lines 341-354: the headers of the destination, the copies number
CopyMetadata ==
    /\ pc = "copy_meta"
    /\ LET withCT == IF loc.objInfo.ContentType # ""
                     THEN MapSet(loc.objInfo.Headers, "Content-Type",
                                 loc.objInfo.ContentType)
                     ELSE loc.objInfo.Headers
           reqCT == HeaderGet(req["headers"], "Content-Type")
           l1 == IF loc.metadata.nil
                 THEN [loc EXCEPT !.objInfo.Headers = withCT,
                                  !.srcInfo.Headers = withCT,
                                  !.metadata = withCT]
                 ELSE IF reqCT # ""
                 THEN [loc EXCEPT !.metadata =
                                     MapSet(loc.metadata, "Content-Type", reqCT)]
                 ELSE loc
       IN  /\ loc' = l1
           /\ IF getCopiesNumberOrDefault(l1.metadata)
              THEN /\ pc' = "copy_settings"
                   /\ UNCHANGED <<status, body, sentHdrs, failed>>
              ELSE Fail("getCopiesNumberOrDefault", APIError("BadRequest"))
    /\ UNCHANGED <<op, req, ctxBox, calls, backend, hdrs, nextCalls>>


\* lines 367-371
CopyGetBucketSettings ==
    /\ pc = "copy_settings"
    /\ \/ /\ calls' = Append(calls, Call("GetBucketSettings", TRUE, "dstBucket"))
          /\ pc' = "copy_lock"
          /\ UNCHANGED <<status, body, sentHdrs, failed>>
       \/ \E e \in LayerErrors :
          /\ calls' = Append(calls, Call("GetBucketSettings", FALSE, "dstBucket"))
          /\ Fail("GetBucketSettings", e)
    /\ UNCHANGED <<op, req, ctxBox, loc, backend, hdrs, nextCalls>>

\* Object-lock request headers: none, or a retention mode without a date
LockHeaders == {"none", "invalid"}

\* lines 373-377: formObjectLock
CopyFormObjectLock ==
    /\ pc = "copy_lock"
    /\ \E h \in LockHeaders :
        /\ Read("lock", h)
        /\ IF h = "invalid"
           THEN Fail("formObjectLock", APIError("InvalidRequest"))
           ELSE /\ pc' = "copy_copy"
                /\ UNCHANGED <<status, body, sentHdrs, failed>>
    /\ UNCHANGED <<op, ctxBox, loc, calls, backend, hdrs, nextCalls>>

\* The ObjectInfo CopyObject returns for the new object
DstObjInfo(src, metadata) ==
    [ContentType |-> MapGet(metadata, "Content-Type"), Headers |-> metadata,
     HashSum |-> src.HashSum, Version |-> "dv", Encrypted |-> src.Encrypted,
     Modified |-> 4]

\* lines 356-365, 379-382: h.obj.CopyObject
CopyCopyObject ==
    /\ pc = "copy_copy"
    /\ LET arg == [SrcObject |-> loc.objInfo, DstObject |-> "dstObject",
                   Header |-> loc.metadata, Encryption |-> loc.encEnabled]
       IN  \/ /\ calls' = Append(calls, Call("CopyObject", TRUE, arg))
              /\ backend' = [backend EXCEPT !.object = TRUE]
              /\ loc' = [loc EXCEPT !.objInfo = DstObjInfo(loc.objInfo, loc.metadata),
                                    !.copied = TRUE]
              /\ pc' = "copy_encode"
              /\ UNCHANGED <<status, body, sentHdrs, failed>>
           \/ \E e \in LayerErrors :
              /\ calls' = Append(calls, Call("CopyObject", FALSE, arg))
              /\ Fail("CopyObject", e)
              /\ UNCHANGED <<backend, loc>>
    /\ UNCHANGED <<op, req, ctxBox, hdrs, nextCalls>>

CopyObjectResponse(info) ==
    [doc |-> "CopyObjectResult", code |-> info.HashSum, msg |-> ""]

\* api.EncodeToResponse: status 200 and the XML document; the error of a
\* failed write is returned.
EncodeToResponse(doc, written) ==
    /\ status' = IF status = 0 THEN 200 ELSE status
    /\ sentHdrs' = IF status = 0 THEN hdrs ELSE sentHdrs
    /\ body' = IF written THEN Append(body, doc) ELSE body

\* lines 383-386
CopyEncodeResponse ==
    /\ pc = "copy_encode"
    /\ \/ /\ EncodeToResponse(CopyObjectResponse(loc.objInfo), TRUE)
          /\ pc' = "copy_acl"
          /\ UNCHANGED failed
       \/ \* the write fails; the error is reported on the same writer
          /\ status' = IF status = 0 THEN 200 ELSE status
          /\ sentHdrs' = IF status = 0 THEN hdrs ELSE sentHdrs
          /\ body' = Append(body, ErrorDoc(Opaque("write failed")))
          /\ failed' = "EncodeToResponse"
          /\ pc' = "done"
    /\ UNCHANGED <<op, req, ctxBox, loc, calls, backend, hdrs, nextCalls>>

\* Variant: a PutBucketACL error is reported but the handler does not return.
CopyPutBucketACL_NoReturn ==
    /\ pc = "copy_acl"
    /\ IF loc.containsACL
       THEN \/ /\ Fail("getNewEAclTable", APIError("InvalidRequest"))
               /\ UNCHANGED <<calls, backend>>
            \/ LET arg == [bucket |-> "dstBucket",
                           SessionToken |-> loc.sessionTokenEACL]
               IN  \/ /\ calls' = Append(calls, Call("PutBucketACL", TRUE, arg))
                      /\ backend' = [backend EXCEPT !.acl = TRUE]
                      /\ pc' = "copy_puttags"
                      /\ UNCHANGED <<status, body, sentHdrs, failed>>
                   \/ \E e \in LayerErrors :
                      /\ calls' = Append(calls, Call("PutBucketACL", FALSE, arg))
                      /\ WriteErrorResponse(e)
                      /\ failed' = "PutBucketACL"
                      /\ pc' = "copy_puttags"
                      /\ UNCHANGED backend
       ELSE /\ pc' = "copy_puttags"
            /\ UNCHANGED <<calls, backend, status, body, sentHdrs, failed>>
    /\ UNCHANGED <<op, req, ctxBox, loc, hdrs, nextCalls>>

\* lines 388-405: the new EACL table, h.obj.PutBucketACL
CopyPutBucketACL ==
    /\ pc = "copy_acl"
    /\ IF loc.containsACL
       THEN \/ \* h.getNewEAclTable fails
               /\ Fail("getNewEAclTable", APIError("InvalidRequest"))
               /\ UNCHANGED <<calls, backend>>
            \/ LET arg == [bucket |-> "dstBucket",
                           SessionToken |-> loc.sessionTokenEACL]
               IN  \/ /\ calls' = Append(calls, Call("PutBucketACL", TRUE, arg))
                      /\ backend' = [backend EXCEPT !.acl = TRUE]
                      /\ pc' = "copy_puttags"
                      /\ UNCHANGED <<status, body, sentHdrs, failed>>
                   \/ \E e \in LayerErrors :
                      /\ calls' = Append(calls, Call("PutBucketACL", FALSE, arg))
                      /\ Fail("PutBucketACL", e)
                      /\ UNCHANGED backend
       ELSE /\ pc' = "copy_puttags"
            /\ UNCHANGED <<calls, backend, status, body, sentHdrs, failed>>
    /\ UNCHANGED <<op, req, ctxBox, loc, hdrs, nextCalls>>

\* Variant: the tags are put on the version of the headed source.
CopyPutObjectTagging_SourceVersion ==
    /\ pc = "copy_puttags"
    /\ IF ~loc.tagSet.nil
       THEN LET arg == [bucket |-> "dstBucket", object |-> "dstObject",
                        versionID |-> loc.headed.Version,
                        tagSet |-> loc.tagSet]
            IN  \/ /\ calls' = Append(calls, Call("PutObjectTagging", TRUE, arg))
                   /\ backend' = [backend EXCEPT !.tags = TRUE]
                   /\ pc' = "copy_notify"
                   /\ UNCHANGED <<status, body, sentHdrs, failed>>
                \/ \E e \in LayerErrors :
                   /\ calls' = Append(calls, Call("PutObjectTagging", FALSE, arg))
                   /\ Fail("PutObjectTagging", e)
                   /\ UNCHANGED backend
       ELSE /\ pc' = "copy_notify"
            /\ UNCHANGED <<calls, backend, status, body, sentHdrs, failed>>
    /\ UNCHANGED <<op, req, ctxBox, loc, hdrs, nextCalls>>

\* lines 407-417: h.obj.PutObjectTagging
CopyPutObjectTagging ==
    /\ pc = "copy_puttags"
    /\ IF ~loc.tagSet.nil
       THEN LET arg == [bucket |-> "dstBucket", object |-> "dstObject",
                        versionID |-> loc.objInfo.Version,
                        tagSet |-> loc.tagSet]
            IN  \/ /\ calls' = Append(calls, Call("PutObjectTagging", TRUE, arg))
                   /\ backend' = [backend EXCEPT !.tags = TRUE]
                   /\ pc' = "copy_notify"
                   /\ UNCHANGED <<status, body, sentHdrs, failed>>
                \/ \E e \in LayerErrors :
                   /\ calls' = Append(calls, Call("PutObjectTagging", FALSE, arg))
                   /\ Fail("PutObjectTagging", e)
                   /\ UNCHANGED backend
       ELSE /\ pc' = "copy_notify"
            /\ UNCHANGED <<calls, backend, status, body, sentHdrs, failed>>
    /\ UNCHANGED <<op, req, ctxBox, loc, hdrs, nextCalls>>

\* Variant: a failed notification is reported to the client and ends the
\* request.
CopyNotify_ReturnsError ==
    /\ pc = "copy_notify"
    /\ \/ /\ calls' = Append(calls, Call("sendNotifications", TRUE,
                                         "ObjectCreated:Copy"))
          /\ pc' = "copy_sse"
          /\ UNCHANGED <<status, body, sentHdrs, failed>>
       \/ /\ calls' = Append(calls, Call("sendNotifications", FALSE,
                                         "ObjectCreated:Copy"))
          /\ Fail("sendNotifications", Opaque("couldn't send notification"))
    /\ UNCHANGED <<op, req, ctxBox, loc, backend, hdrs, nextCalls>>

\* lines 419-432: h.sendNotifications; its error is only logged
CopyNotify ==
    /\ pc = "copy_notify"
    /\ \E ok \in BOOLEAN :
        calls' = Append(calls, Call("sendNotifications", ok, "ObjectCreated:Copy"))
    /\ pc' = "copy_sse"
    /\ UNCHANGED <<op, req, ctxBox, loc, backend, status, body, hdrs,
                   sentHdrs, failed, nextCalls>>

\* lines 434-437: addSSECHeaders(w.Header(), r.Header)
CopySSEHeaders ==
    /\ pc = "copy_sse"
    /\ hdrs' = IF loc.encEnabled THEN hdrs \cup {<<"SSE-C", "echoed">>} ELSE hdrs
    /\ pc' = "done"
    /\ UNCHANGED <<op, req, ctxBox, loc, calls, backend, status, body,
                   sentHdrs, failed, nextCalls>>

-----------------------------------------------------------------------------
(* PUT coordinator: put.go, PutObjectHandler *)

\* Content-Length of a PUT: unknown (-1), empty, or the size of the body
ContentLengths == {-1, 0, 5}

\* err.Error() of an error of the object layer
ErrorString(e) == IF e.api THEN e.code ELSE e.msg

\* The api.Error the handler builds: the InternalError code, the error's
\* string as description, status 500
InternalErrorOf(e) ==
    [api |-> TRUE, code |-> "InternalError", msg |-> ErrorString(e)]

\* Variant: the layer's error is handed to the responder as it is.
PutObjectError_Passed(e) == e

\* lines 62-66
PutObjectError(e) == InternalErrorOf(e)

\* lines 35-73: the whole handler; the body stream is handed to the layer
PutObjectHandler ==
    /\ pc = "put_object"
    /\ \E size \in ContentLengths, hs \in HeaderSamples :
        LET arg == [Bucket |-> "bkt", Object |-> "obj", Reader |-> "r.Body",
                    Size |-> size, Header |-> parseMetadata(hs)]
        IN  /\ req' = ("Content-Length" :> size) @@ ("headers" :> hs) @@ req
            /\ \/ \E hash \in {"d41d", "abc"} :
                  /\ calls' = Append(calls, Call("PutObject", TRUE, arg))
                  /\ loc' = [loc EXCEPT !.objInfo.HashSum = hash]
                  /\ backend' = [backend EXCEPT !.object = TRUE]
                  /\ hdrs' = hdrs \cup {<<"ETag", hash>>}
                  /\ status' = IF status = 0 THEN 200 ELSE status
                  /\ sentHdrs' = IF status = 0 THEN hdrs' ELSE sentHdrs
                  /\ UNCHANGED <<body, failed>>
                  /\ pc' = "done"
               \/ \E e \in LayerErrors \cup {APIError("NoSuchBucket")} :
                  /\ calls' = Append(calls, Call("PutObject", FALSE, arg))
                  /\ loc' = [loc EXCEPT !.err = e]
                  /\ Fail("PutObject", PutObjectError(e))
                  /\ UNCHANGED <<backend, hdrs>>
    /\ UNCHANGED <<op, ctxBox, nextCalls>>

-----------------------------------------------------------------------------
(* Specifications *)

Next ==
    \/ AttachUserAuth
    \/ CreateParseACL
    \/ CreateParseBody
    \/ CreateGetBox
    \/ CreatePolicy
    \/ CreateBucketCall
    \/ CopyParseSource
    \/ CopyResolveSrcBucket
    \/ CopyResolveDstBucket
    \/ CopyGetSessionToken
    \/ CopyGetObjectInfo
    \/ CopyParseArgs
    \/ CopyTagging
    \/ CopyEncryption
    \/ CopyPreconditions
    \/ CopyMetadata
    \/ CopyGetBucketSettings
    \/ CopyFormObjectLock
    \/ CopyCopyObject
    \/ CopyEncodeResponse
    \/ CopyPutBucketACL
    \/ CopyPutObjectTagging
    \/ CopyNotify
    \/ CopySSEHeaders
    \/ PutObjectHandler

Spec == Init /\ [][Next]_vars

\* The canned ACL parser alone: the handler is entered directly and its
\* first step reads an x-amz-acl value from the whole input set.
InitACL ==
    /\ op = "CREATE"
    /\ pc = "create_acl"
    /\ req = EmptyReq
    /\ ctxBox = NoCtxBox
    /\ loc = InitLoc
    /\ calls = <<>>
    /\ backend = InitBackend
    /\ status = 0
    /\ body = <<>>
    /\ hdrs = {}
    /\ sentHdrs = {}
    /\ failed = ""
    /\ nextCalls = 0

CreateParseACLAll == CreateParseACLOf(ACLInputs)

NextACL == CreateParseACLAll

SpecACL == InitACL /\ [][NextACL]_vars

-----------------------------------------------------------------------------
(* Backend error classifier: internal/frostfs, isErrAccessDenied and the    *)
(* wrapping exercised by frostfs_test.go, TestErrorChecking                 *)

\* Reasons a status error carries, as character sequences
ReasonChars == {"a", ":", " "}
Reasons == Str(ReasonChars, MaxReasonLen)

\* Status types of the backend
StatusKinds == {"ObjectAccessDenied", "ObjectNotFound", "ContainerNotFound",
                "ServerInternal"}

\* new(apistatus.X) followed by WriteReason(reason)
StatusError(kind, reason) == [kind |-> kind, reason |-> reason]

\* The classifier: the reason of an ObjectAccessDenied status, and whether
\* the error is one
isErrAccessDenied(err) ==
    IF err.kind = "ObjectAccessDenied"
    THEN [reason |-> err.reason, ok |-> TRUE]
    ELSE [reason |-> <<>>, ok |-> FALSE]

\* layer.ErrAccessDenied, a sentinel error: its identity, its message, and
\* the errors it wraps
ErrAccessDenied ==
    [id |-> "layer.ErrAccessDenied",
     msg |-> <<"a","c","c","e","s","s"," ","d","e","n","i","e","d">>,
     chain |-> {}]
NoWrappedError == [id |-> "nil", msg |-> <<>>, chain |-> {}]

\* Variant: the sentinel is formatted with %v, so the result does not wrap it.
Errorf_Formatted(target, text) ==
    [id |-> "fmt.wrapError", msg |-> target.msg \o <<":", " ">> \o text,
     chain |-> {}]

\* fmt.Errorf("%w: %s", target, text)
Errorf(target, text) ==
    [id |-> "fmt.wrapError", msg |-> target.msg \o <<":", " ">> \o text,
     chain |-> {target.id} \cup target.chain]

\* errors.Is, strings.Contains
ErrorsIs(err, target) == err.id = target.id \/ target.id \in err.chain
Contains(s, sub) ==
    \E i \in 1..(Len(s) + 1) :
        /\ i + Len(sub) - 1 <= Len(s)
        /\ SubSeq(s, i, i + Len(sub) - 1) = sub

InitErr ==
    /\ op = "ERR"
    /\ pc = "classify"
    /\ \E k \in StatusKinds, r \in Reasons :
          loc = [err |-> StatusError(k, r), fetchedReason |-> <<>>,
                 ok |-> FALSE, wrappedError |-> NoWrappedError]
    /\ req = EmptyReq
    /\ ctxBox = NoCtxBox
    /\ calls = <<>>
    /\ backend = InitBackend
    /\ status = 0
    /\ body = <<>>
    /\ hdrs = {}
    /\ sentHdrs = {}
    /\ failed = ""
    /\ nextCalls = 0

\* frostfs_test.go line 19: fetchedReason, ok := isErrAccessDenied(err)
ErrClassify ==
    /\ pc = "classify"
    /\ LET c == isErrAccessDenied(loc.err)
       IN  /\ loc' = [loc EXCEPT !.fetchedReason = c.reason, !.ok = c.ok]
           /\ pc' = IF c.ok THEN "wrap" ELSE "done"
    /\ UNCHANGED <<op, req, ctxBox, calls, backend, status, body, hdrs,
                   sentHdrs, failed, nextCalls>>

\* frostfs_test.go line 20: the gateway's error for an access-denied status
ErrWrap ==
    /\ pc = "wrap"
    /\ loc' = [loc EXCEPT
                 !.wrappedError = Errorf(ErrAccessDenied, loc.fetchedReason)]
    /\ pc' = "done"
    /\ UNCHANGED <<op, req, ctxBox, calls, backend, status, body, hdrs,
                   sentHdrs, failed, nextCalls>>

NextErr == ErrClassify \/ ErrWrap

SpecErr == InitErr /\ [][NextErr]_vars

-----------------------------------------------------------------------------
(* Properties *)

CallIdx(fn) == {i \in 1..Len(calls) : calls[i].fn = fn}
Called(fn) == CallIdx(fn) # {}
BodyDocs == {body[i].doc : i \in 1..Len(body)}

\* C1: after the middleware has run, exactly one of three outcomes holds
\* according to what Authenticate returned: "no authorization header" -> the
\* next handler was invoked once and the context holds no box; any other
\* error -> a single AccessDenied (403) response and the next handler never
\* invoked; success -> the next handler was invoked once with the returned
\* box under BoxData.
C1_AuthOutcomes ==
    /\ ~Has("auth") => nextCalls = 0 /\ pc = "auth"
    /\ Has("auth") =>
        LET a == req["auth"]
        IN  CASE a.err = "ErrNoAuthorizationHeader" ->
                    /\ nextCalls = 1
                    /\ ctxBox = NoCtxBox
                    /\ failed # "Authenticate"
              [] a.err = "" ->
                    /\ nextCalls = 1
                    /\ ctxBox.set
                    /\ pc = Entry(op) => ctxBox.box = a.box
                    /\ ctxBox.box.nil = a.box.nil
                    /\ failed # "Authenticate"
              [] OTHER ->
                    /\ nextCalls = 0
                    /\ pc = "done" /\ failed = "Authenticate"
                    /\ status = 403
                    /\ body = <<ErrorDoc(APIError("AccessDenied"))>>
                    /\ calls = <<>>
                    /\ ctxBox = NoCtxBox

C1_Witness ==
    /\ Has("auth") /\ req["auth"].err = "other"
    /\ status = 403 /\ nextCalls = 0

\* C2 (as claimed): when CopyObject succeeded and a post-step failed, the
\* client sees only that step's error: no success status and no
\* CopyObjectResult body were written before it.
PostSteps == {"getNewEAclTable", "PutBucketACL", "PutObjectTagging"}

C2_PostStepErrorOnly ==
    (op = "COPY" /\ failed \in PostSteps) =>
        /\ status # 200
        /\ "CopyObjectResult" \notin BodyDocs
        /\ Len(body) = 1 /\ body[1].doc = "Error"

\* C3 (as claimed): an invalid x-amz-metadata-directive gives
\* 400 InvalidMetadataDirective and neither GetObjectInfo nor CopyObject is
\* invoked.
AllowedDirectives == {"", "COPY", "REPLACE"}
InvalidMetaDir == Has("metaDir") /\ req["metaDir"] \notin AllowedDirectives

C3_NoHeadNoCopy ==
    (op = "COPY" /\ InvalidMetaDir) =>
        /\ status = 400
        /\ body = <<ErrorDoc(APIError("InvalidMetadataDirective"))>>
        /\ ~Called("GetObjectInfo")
        /\ ~Called("CopyObject")

DatesParse(c) ==
    parseHTTPTime(c.IfModifiedSince).ok /\ parseHTTPTime(c.IfUnmodifiedSince).ok

\* C3 (amended): CopyObject is invoked only in requests whose metadata
\* directive is "", COPY or REPLACE.  The source is headed before the
\* directive is validated: a request with an invalid directive has made
\* exactly one, successful, GetObjectInfo call and no later object-layer
\* call, and if both conditional dates parse its response is
\* 400 InvalidMetadataDirective.
C3_NoCopyAfterHead ==
    /\ (op = "COPY" /\ Called("CopyObject")) =>
            Has("metaDir") /\ req["metaDir"] \in AllowedDirectives
    /\ (op = "COPY" /\ InvalidMetaDir) =>
        /\ pc = "done" /\ failed = "parseCopyObjectArgs"
        /\ Cardinality(CallIdx("GetObjectInfo")) = 1
        /\ calls[Len(calls)].fn = "GetObjectInfo" /\ calls[Len(calls)].ok
        /\ DatesParse(req["conditional"]) =>
            /\ status = 400
            /\ body = <<ErrorDoc(APIError("InvalidMetadataDirective"))>>

C3_Witness ==
    /\ op = "COPY" /\ InvalidMetaDir /\ req["metaDir"] = "MERGE"
    /\ DatesParse(req["conditional"])
    /\ status = 400 /\ Called("GetObjectInfo")

\* The request reached the precondition check: its SSE headers were read
\* and accepted against the source.
ReachedPreconditions ==
    /\ op = "COPY" /\ Has("sse")
    /\ formEncryptionParams(req["sse"]).ok
    /\ MatchObjectEncryption(formEncryptionParams(req["sse"]).enabled,
                             loc.headed.Encrypted)

PreconditionsFail == ~checkPreconditions(loc.headed, req["conditional"])

\* C4: whenever the precondition check against the source ObjectInfo fails,
\* the response is 412 PreconditionFailed and CopyObject, PutBucketACL,
\* PutObjectTagging and the notification are never invoked.
C4_PreconditionFailed ==
    (ReachedPreconditions /\ PreconditionsFail) =>
        /\ pc \in {"copy_precond", "done"}
        /\ pc = "done" =>
            /\ failed = "checkPreconditions"
            /\ status = 412
            /\ body = <<ErrorDoc(APIError("PreconditionFailed"))>>
        /\ ~Called("CopyObject")
        /\ ~Called("PutBucketACL")
        /\ ~Called("PutObjectTagging")
        /\ ~Called("sendNotifications")
        /\ ~backend.object

C4_Witness ==
    /\ ReachedPreconditions /\ PreconditionsFail
    /\ req["conditional"].IfNoneMatch = "abc" /\ loc.headed.HashSum = "abc"
    /\ pc = "done" /\ status = 412

\* Position of each collaborator call in the pipeline
CallRank(c) ==
    CASE c.fn = "GetBucketInfo" -> IF c.arg = "srcBucket" THEN 1 ELSE 2
      [] c.fn = "GetObjectInfo" -> 3
      [] c.fn = "GetObjectTagging" -> 4
      [] c.fn = "GetBucketSettings" -> 5
      [] c.fn = "CopyObject" -> 6
      [] c.fn = "PutBucketACL" -> 7
      [] c.fn = "PutObjectTagging" -> 8
      [] c.fn = "sendNotifications" -> 9
      [] OTHER -> 0

\* C5: the COPY handler is an ordered pipeline with early abort and no
\* rollback: calls are made in the fixed order, each at most once; once a
\* step has reported a failure the handler is finished, the failing call is
\* the last call made and no notification was sent; what earlier steps
\* committed stays (a failed PutBucketACL leaves the copied object and
\* PutObjectTagging uncalled).
C5_OrderedAbort ==
    op = "COPY" =>
        /\ \A i \in 1..Len(calls) : CallRank(calls[i]) > 0
        /\ \A i, j \in 1..Len(calls) :
              i < j => CallRank(calls[i]) < CallRank(calls[j])
        /\ \A i \in 1..Len(calls) :
              (~calls[i].ok /\ calls[i].fn # "sendNotifications") =>
                  i = Len(calls) /\ failed # ""
        /\ failed # "" => pc = "done" /\ ~Called("sendNotifications")
        /\ (\E i \in CallIdx("CopyObject") : calls[i].ok) <=> backend.object
        /\ (\E i \in CallIdx("PutBucketACL") : calls[i].ok) <=> backend.acl
        /\ (\E i \in CallIdx("PutObjectTagging") : calls[i].ok) <=> backend.tags
        /\ failed \in {"PutBucketACL", "getNewEAclTable"} =>
              ~Called("PutObjectTagging") /\ backend.object

C5_Witness ==
    /\ op = "COPY" /\ failed = "PutBucketACL" /\ pc = "done"
    /\ ~loc.tagSet.nil /\ ~Called("PutObjectTagging")
    /\ backend.object

\* C6 (as claimed): a successful COPY with encryption enabled delivers the
\* echoed SSE-C headers to the client.
C6_SSEHeadersDelivered ==
    (op = "COPY" /\ pc = "done" /\ failed = "" /\ loc.encEnabled) =>
        <<"SSE-C", "echoed">> \in sentHdrs

\* The x-amz-acl value the parser was given
ACLGiven == Has("X-Amz-Acl") /\ req["X-Amz-Acl"].present
ACLValue == req["X-Amz-Acl"].val

IsHexDigits(s) ==
    /\ Len(s) >= 1 /\ Len(s) <= 8
    /\ \A i \in 1..Len(s) : s[i] \in HexChars

HasPrefix0x(s) == Len(s) >= 2 /\ s[1] = "0" /\ s[2] = "x"

\* The digits of an input of the form ["0x"] digits
DigitsOf(s) == IF HasPrefix0x(s) THEN SubSeq(s, 3, Len(s)) ELSE s

\* C7 (as claimed): for an input that is an optional "0x" followed by 1 to 8
\* hexadecimal digits, parseBasicACL succeeds with exactly the value of those
\* digits; nothing but the prefix is dropped.
C7_ExactHexValue ==
    (ACLGiven /\ IsHexDigits(DigitsOf(ACLValue))) =>
        /\ loc.acl.ok
        /\ loc.acl.rule = ""
        /\ loc.acl.value = Uint32Of(DigitsOf(ACLValue))

Outcome(r) == [ok |-> r.ok, rule |-> r.rule, value |-> r.value]

\* C8: for every hex string h of 1 to 8 digits, parseBasicACL(h),
\* parseBasicACL("0x" + h) and parseBasicACL(upper(h)) give the same result:
\* the same value, or all three fail.
C8_RoundTrip ==
    (ACLGiven /\ IsHexDigits(ACLValue)) =>
        /\ Outcome(loc.acl) = Outcome(parseBasicACL(<<"0", "x">> \o ACLValue))
        /\ Outcome(loc.acl) = Outcome(parseBasicACL(ToUpper(ACLValue)))

C8_Witness ==
    /\ ACLGiven /\ ACLValue = <<"1", "a">>
    /\ loc.acl.ok /\ loc.acl.value = [hi |-> 0, lo |-> 26]
    /\ parseBasicACL(<<"0", "x", "1", "A">>).value = [hi |-> 0, lo |-> 26]

\* The LocationConstraint of the request body, as the handler read it
BodyConstraint == IF req["body"].contentLength = 0 THEN "" ELSE req["body"].lc

Min(S) == CHOOSE x \in S : \A y \in S : x <= y

\* C9: the policy passed to CreateBucket is the Policy of the first entry of
\* the box's policy list whose LocationConstraint equals a non-empty
\* requested constraint, and the parsed default policy "REP 3" in every
\* other case; the box's policy list is never modified.
C9_PolicySelection ==
    (op = "CREATE" /\ Has("auth")) =>
        LET ps == req["auth"].box.policies
        IN  /\ ctxBox.set => ctxBox.box.policies = ps
            /\ \A i \in CallIdx("CreateBucket") :
                LET lc == BodyConstraint
                    hits == {k \in 1..Len(ps) : ps[k].LocationConstraint = lc}
                IN  /\ calls[i].arg.policy =
                         IF lc # "" /\ hits # {} THEN ps[Min(hits)].Policy
                         ELSE "REP 3"
                    /\ calls[i].arg.box.policies = ps

C9_Witness ==
    /\ op = "CREATE" /\ Called("CreateBucket")
    /\ Len(req["auth"].box.policies) = 2
    /\ req["auth"].box.policies[1].Policy = "P2"
    /\ req["auth"].box.policies[2].Policy = "P1"
    /\ BodyConstraint = "eu"
    /\ calls[1].arg.policy = "P2"

\* C10 (as claimed): an empty CREATE-BUCKET body is accepted and yields an
\* empty LocationConstraint; a non-empty body that is not well-formed XML
\* yields a bad-request response, not an internal error, and neither the box
\* lookup nor CreateBucket is performed.
C10_BodyParsing ==
    (op = "CREATE" /\ Has("body")) =>
        /\ req["body"].kind = "empty" =>
              /\ failed # "parseLocationConstraint"
              /\ loc.lc = ""
        /\ req["body"].kind = "malformed" =>
              /\ failed = "parseLocationConstraint"
              /\ status = 400
              /\ body = <<ErrorDoc(APIError("BadRequest"))>>
              /\ ~loc.boxData
              /\ ~Called("CreateBucket")

\* C11: PutObjectHandler calls PutObject exactly once, with the request's
\* Content-Length as size (-1 included) and the extracted metadata, and
\* writes one response: 200 with ETag set to the returned HashSum and no body
\* on success, 500 InternalError carrying the error's string on any error.
C11_PutOnce ==
    (op = "PUT" /\ pc = "done" /\ nextCalls = 1) =>
        /\ Len(calls) = 1 /\ calls[1].fn = "PutObject"
        /\ calls[1].arg.Size = req["Content-Length"]
        /\ calls[1].arg.Header.m =
              {<<h[2], h[3]>> : h \in {x \in req["headers"] : x[1] = "X-Amz-Meta-"}}
        /\ ~calls[1].arg.Header.nil
        /\ calls[1].arg.Reader = "r.Body"
        /\ calls[1].ok =>
              /\ status = 200 /\ body = <<>> /\ failed = ""
              /\ sentHdrs = {<<"ETag", loc.objInfo.HashSum>>}
        /\ ~calls[1].ok =>
              /\ status = 500
              /\ body = <<[doc |-> "Error", code |-> "InternalError",
                           msg |-> IF loc.err.api THEN loc.err.code
                                   ELSE loc.err.msg]>>
              /\ sentHdrs = {}

C11_Witness ==
    /\ op = "PUT" /\ pc = "done" /\ Len(calls) = 1 /\ ~calls[1].ok
    /\ loc.err = [api |-> TRUE, code |-> "AccessDenied", msg |-> ""]
    /\ calls[1].arg.Size = -1
    /\ status = 500

\* The metadata and the Content-Type of the request, from its headers
ReqMetaPairs ==
    {<<h[2], h[3]>> : h \in {x \in req["headers"] : x[1] = "X-Amz-Meta-"}}
ReqContentType ==
    IF \E h \in req["headers"] : h[1] = "" /\ h[2] = "Content-Type"
    THEN (CHOOSE h \in req["headers"] : h[1] = "" /\ h[2] = "Content-Type")[3]
    ELSE ""

WithEntry(pairs, k, v) == {e \in pairs : e[1] # k} \cup {<<k, v>>}
EntryOf(pairs, k) ==
    IF \E e \in pairs : e[1] = k THEN (CHOOSE e \in pairs : e[1] = k)[2] ELSE ""

\* The headers of the source with its content type filled in
InheritedHeaders ==
    IF loc.headed.ContentType # ""
    THEN WithEntry(loc.headed.Headers.m, "Content-Type", loc.headed.ContentType)
    ELSE loc.headed.Headers.m

\* C12 (as claimed): with REPLACE the header map passed to CopyObject holds
\* the request's metadata plus a Content-Type entry that is the request's
\* Content-Type when present and otherwise the source's content type; with
\* "" or COPY it is the source's headers with the source's content type.
C12_HeaderOrSource ==
    \A i \in CallIdx("CopyObject") :
        IF req["metaDir"] = "REPLACE"
        THEN /\ {e \in calls[i].arg.Header.m : e[1] # "Content-Type"}
                    = ReqMetaPairs
             /\ EntryOf(calls[i].arg.Header.m, "Content-Type") =
                    IF ReqContentType # "" THEN ReqContentType
                    ELSE loc.headed.ContentType
        ELSE calls[i].arg.Header.m = InheritedHeaders

\* C12 (amended): with REPLACE the header map is the request's metadata,
\* plus a Content-Type entry only when the request carries a Content-Type
\* header (the source's content type is not used); with "" or COPY it is the
\* source's headers with Content-Type set to the source's content type when
\* that is non-empty.
C12_HeaderMap ==
    \A i \in CallIdx("CopyObject") :
        /\ ~calls[i].arg.Header.nil
        /\ calls[i].arg.Header.m =
              IF req["metaDir"] = "REPLACE"
              THEN IF ReqContentType # ""
                   THEN WithEntry(ReqMetaPairs, "Content-Type", ReqContentType)
                   ELSE ReqMetaPairs
              ELSE InheritedHeaders

C12_Witness ==
    /\ Called("CopyObject") /\ req["metaDir"] = "REPLACE"
    /\ ReqContentType = "" /\ loc.headed.ContentType = "image/png"
    /\ calls[Min(CallIdx("CopyObject"))].arg.Header.m = {<<"X", "Y">>}

\* C13: the ObjectInfo returned by GetObjectInfo for the copy source is never
\* modified by the handler: at every point of the request its fields and the
\* contents of its header map are as the object layer returned them.
C13_SourceInfoImmutable ==
    (op = "COPY" /\ Called("GetObjectInfo")) => loc.srcInfo = loc.headed

\* C14: the ObjectCreated.Copy notification is sent at most once, only after
\* CopyObject and every applicable post-step (PutBucketACL with an ACL
\* header, PutObjectTagging with a tag set) succeeded; whether it succeeds or
\* fails, the response stays the 200 copy result without an error document,
\* and the SSE-C header echo still runs.
C14_NotificationBestEffort ==
    \A n \in CallIdx("sendNotifications") :
        /\ CallIdx("sendNotifications") = {n}
        /\ calls[n].arg = "ObjectCreated:Copy"
        /\ \E i \in 1..(n - 1) : calls[i].fn = "CopyObject" /\ calls[i].ok
        /\ \A i \in 1..Len(calls) :
              calls[i].fn \in {"CopyObject", "PutBucketACL", "PutObjectTagging"}
                  => i < n /\ calls[i].ok
        /\ loc.containsACL => Called("PutBucketACL")
        /\ ~loc.tagSet.nil => Called("PutObjectTagging")
        /\ failed = ""
        /\ status = 200
        /\ Len(body) = 1 /\ body[1].doc = "CopyObjectResult"
        /\ pc \in {"copy_sse", "done"}
        /\ (pc = "done" /\ loc.encEnabled) => <<"SSE-C", "echoed">> \in hdrs

C14_Witness ==
    /\ pc = "done" /\ loc.encEnabled /\ loc.containsACL /\ ~loc.tagSet.nil
    /\ <<"SSE-C", "echoed">> \in hdrs
    /\ \E n \in CallIdx("sendNotifications") : ~calls[n].ok
    /\ status = 200

\* C15: parseCopyObjectArgs accepts iff both conditional dates parse and
\* both directives are exactly "", COPY or REPLACE; the error is chosen in
\* the order malformed date, InvalidMetadataDirective for the metadata
\* directive, InvalidTaggingDirective for the tagging directive.
C15_ArgsValidation ==
    (op = "COPY" /\ Has("metaDir")) =>
        LET datesOK  == req["conditional"].IfModifiedSince >= 0
                        /\ req["conditional"].IfUnmodifiedSince >= 0
            mdOK     == req["metaDir"] \in AllowedDirectives
            tdOK     == req["tagDir"] \in AllowedDirectives
            rejected == failed = "parseCopyObjectArgs"
            code     == body[Len(body)].code
        IN  /\ ~rejected <=> (datesOK /\ mdOK /\ tdOK)
            /\ rejected => pc = "done" /\ Len(body) = 1 /\ status = 400
            /\ ~datesOK => code \notin {"InvalidMetadataDirective",
                                        "InvalidTaggingDirective"}
            /\ (datesOK /\ ~mdOK) => code = "InvalidMetadataDirective"
            /\ (datesOK /\ mdOK /\ ~tdOK) => code = "InvalidTaggingDirective"
            /\ ~rejected => /\ loc.metaDir = req["metaDir"]
                            /\ loc.tagDir = req["tagDir"]
                            /\ loc.conditional = req["conditional"]

C15_Witness ==
    /\ op = "COPY" /\ Has("metaDir")
    /\ req["metaDir"] = "replace" /\ req["tagDir"] = "MERGE"
    /\ req["conditional"].IfModifiedSince = 3
    /\ failed = "parseCopyObjectArgs"
    /\ body[1].code = "InvalidMetadataDirective"

\* C16: for every backend ObjectAccessDenied status error carrying reason
\* r, the classifier reports (r, true), and the error built from it is
\* recognised as layer.ErrAccessDenied through the wrapping while its message
\* still contains r.
C16_AccessDeniedWrapped ==
    (op = "ERR" /\ loc.err.kind = "ObjectAccessDenied") =>
        /\ pc # "classify" => loc.ok /\ loc.fetchedReason = loc.err.reason
        /\ pc = "done" =>
              /\ ErrorsIs(loc.wrappedError, ErrAccessDenied)
              /\ Contains(loc.wrappedError.msg, loc.err.reason)
              /\ Contains(loc.wrappedError.msg, ErrAccessDenied.msg)

C16_Witness ==
    /\ op = "ERR" /\ pc = "done"
    /\ loc.err = [kind |-> "ObjectAccessDenied", reason |-> <<"a", ":", " ">>]
    /\ loc.ok
    /\ loc.wrappedError.chain = {"layer.ErrAccessDenied"}
    /\ Len(loc.wrappedError.msg) = 18

\* The access box in the context holds an EACL session token
TokenInBox == ctxBox.set /\ ~ctxBox.box.nil /\ ctxBox.box.token
ACLHeaderPresent == Has("acl") /\ req["acl"]
CopySucceeded == \E i \in CallIdx("CopyObject") : calls[i].ok

\* C17: PutBucketACL is invoked iff the request has an ACL header and
\* CopyObject, the response encoding and the EACL table construction
\* succeeded, always with the session token obtained from the access box
\* before the source was headed; with an ACL header and no obtainable token
\* the request fails before GetObjectInfo, and neither GetObjectInfo nor
\* CopyObject is invoked.
C17_PutBucketACL ==
    op = "COPY" =>
        /\ \A i \in CallIdx("PutBucketACL") :
              /\ CallIdx("PutBucketACL") = {i}
              /\ ACLHeaderPresent
              /\ \E j \in 1..(i - 1) : calls[j].fn = "CopyObject" /\ calls[j].ok
              /\ "CopyObjectResult" \in BodyDocs
              /\ calls[i].arg.SessionToken /\ TokenInBox
              /\ calls[i].arg.bucket = "dstBucket"
        /\ (pc = "done" /\ ACLHeaderPresent /\ CopySucceeded
              /\ failed \notin {"EncodeToResponse", "getNewEAclTable"})
              => Called("PutBucketACL")
        /\ (ACLHeaderPresent /\ Called("GetObjectInfo"))
              => loc.sessionTokenEACL /\ TokenInBox
        /\ (ACLHeaderPresent /\ ~TokenInBox) =>
              /\ ~Called("GetObjectInfo") /\ ~Called("CopyObject")
              /\ ~Called("PutBucketACL")
              /\ pc = "done" => failed \in {"path2BucketObject",
                                            "srcBucket", "dstBucket",
                                            "getSessionTokenSetEACL"}

C17_Witness ==
    /\ op = "COPY" /\ ACLHeaderPresent /\ TokenInBox
    /\ \E i \in CallIdx("PutBucketACL") : calls[i].ok /\ calls[i].arg.SessionToken
    /\ pc = "done" /\ failed = ""

C17_WitnessNoToken ==
    /\ op = "COPY" /\ ACLHeaderPresent /\ ~TokenInBox
    /\ pc = "done" /\ failed = "getSessionTokenSetEACL"

\* The tagging step (lines 305-323) has been passed or has failed
TaggingStepDone ==
    /\ Has("tagDir") /\ failed # "parseCopyObjectArgs" /\ pc # "copy_tags"
\* The post-step for tags (lines 407-417) has been passed or has failed
PutTaggingStepDone ==
    \/ pc \in {"copy_notify", "copy_sse"}
    \/ pc = "done" /\ failed \in {"", "PutObjectTagging"} /\ CopySucceeded

\* C18: GetObjectTagging is invoked, on the source bucket, the source object
\* name and the headed source's version, iff the tagging directive is not
\* REPLACE; with REPLACE the tag set comes from the x-amz-tagging header
\* only.  After a successful copy PutObjectTagging is invoked at most once,
\* iff the tag set is non-nil, after PutBucketACL, on the destination bucket,
\* the destination object name and the version of the ObjectInfo that
\* CopyObject returned; no GetObjectInfo call follows CopyObject.
C18_Tagging ==
    op = "COPY" =>
        /\ \A i \in CallIdx("GetObjectTagging") :
              /\ CallIdx("GetObjectTagging") = {i}
              /\ req["tagDir"] # "REPLACE"
              /\ calls[i].arg = [bucket |-> "srcBucket",
                                 object |-> loc.srcObject,
                                 versionID |-> loc.headed.Version]
              /\ \A j \in CallIdx("CopyObject") : i < j
        /\ (TaggingStepDone /\ req["tagDir"] # "REPLACE")
              => Called("GetObjectTagging")
        /\ (TaggingStepDone /\ req["tagDir"] = "REPLACE") =>
              /\ Has("X-Amz-Tagging")
              /\ failed # "parseTaggingHeader" =>
                    loc.tagSet = (CASE req["X-Amz-Tagging"] = "" -> NilMap
                                    [] OTHER -> MapOf({<<"k", "v">>}))
        /\ \A i \in CallIdx("PutObjectTagging") :
              /\ CallIdx("PutObjectTagging") = {i}
              /\ ~loc.tagSet.nil
              /\ \E j \in 1..(i - 1) : calls[j].fn = "CopyObject" /\ calls[j].ok
              /\ \A j \in CallIdx("PutBucketACL") : j < i
              /\ loc.containsACL => Called("PutBucketACL")
              /\ calls[i].arg = [bucket |-> "dstBucket", object |-> "dstObject",
                                 versionID |-> "dv", tagSet |-> loc.tagSet]
        /\ PutTaggingStepDone => (Called("PutObjectTagging") <=> ~loc.tagSet.nil)
        /\ \A i \in CallIdx("GetObjectInfo"), j \in CallIdx("CopyObject") : i < j
        /\ Len(SelectSeq(calls, LAMBDA c : c.fn = "GetObjectInfo")) <= 1

C18_Witness ==
    /\ op = "COPY" /\ pc = "done" /\ failed = ""
    /\ req["tagDir"] = "COPY"
    /\ Called("GetObjectTagging") /\ Called("PutBucketACL")
    /\ \E i \in CallIdx("PutObjectTagging") :
          calls[i].ok /\ calls[i].arg.tagSet = MapOf({<<"s", "t">>})

C18_WitnessReplace ==
    /\ op = "COPY" /\ pc = "done" /\ failed = ""
    /\ req["tagDir"] = "REPLACE" /\ req["X-Amz-Tagging"] = "k=v"
    /\ ~Called("GetObjectTagging") /\ Called("PutObjectTagging")

\* The body of the request does not decode
BodyParseError ==
    Has("body") /\ req["body"].contentLength # 0 /\ req["body"].kind # "xml"

\* C19: CreateBucket is invoked only in requests for which Authenticate
\* succeeded with a non-nil access box.  A request on the anonymous path (no
\* Authorization header, no box in the context) never reaches CreateBucket
\* and ends with "couldn't get box data from context", unless an ACL parse
\* error or a body parse error is reported first.
C19_AnonymousCreate ==
    (op = "CREATE" /\ Has("auth")) =>
        LET a == req["auth"]
        IN  /\ Called("CreateBucket") => a.err = "" /\ ~a.box.nil
            /\ a.err = "ErrNoAuthorizationHeader" =>
                  /\ ~ctxBox.set
                  /\ ~Called("CreateBucket")
                  /\ pc = "done" =>
                        /\ nextCalls = 1
                        /\ Len(body) = 1 /\ body[1].doc = "Error"
                        /\ failed = "parseBasicACL" <=> ~loc.acl.ok
                        /\ failed = "parseLocationConstraint"
                              <=> (loc.acl.ok /\ BodyParseError)
                        /\ failed = "getBoxData"
                              <=> (loc.acl.ok /\ Has("body") /\ ~BodyParseError)
                        /\ failed = "getBoxData" =>
                              body[1].msg = "couldn't get box data from context"
            /\ (a.err = "" /\ a.box.nil /\ pc = "done") =>
                  failed \in {"parseBasicACL", "parseLocationConstraint",
                              "getBoxData"}

C19_Witness ==
    /\ op = "CREATE" /\ pc = "done" /\ Has("auth") /\ Has("body")
    /\ req["auth"].err = "ErrNoAuthorizationHeader"
    /\ req["body"].kind = "xml" /\ req["body"].lc = "eu"
    /\ failed = "getBoxData"
    /\ Len(body) = 1
    /\ body[1].msg = "couldn't get box data from context"

====
